---------------------------- MODULE Spec2Model ----------------------------
(***************************************************************************)
(* HealthGuard backend: the API handlers (api/main.py), the rate limiter   *)
(* (api/rate_limit.py), the guideline-based recommender                    *)
(* (ml/guideline_recommender.py), the tier-lookup recommender              *)
(* (ml/recommendation_engine.py), the risk predictor and the monotonicity  *)
(* safeguard they rely on.                                                 *)
(*                                                                         *)
(* Units.  Risk scores are percentages on the integer grid 0..100; every   *)
(* cut point of the source (15, 20, 25, 30, 35, 50, 70) is an integer, so  *)
(* the grid has points on both sides of each comparison.  Raw clinical     *)
(* values are integers, oldpeak in tenths (2.3 is 23).  A value that has   *)
(* gone through the effect engine is carried in hundredths of its raw      *)
(* unit, so that x * 0.95 is the exact integer x * 95.                     *)
(***************************************************************************)
EXTENDS Integers, Sequences, FiniteSets

VARIABLES
    started,              \* lifespan() has run
    riskPredictorLoaded,  \* api/main.py global risk_predictor is not None
    agentLoaded,          \* api/main.py global intervention_agent is not None
    scalerLoaded,         \* api/main.py global scaler is not None
    predictor,            \* a RiskPredictor object: model fitted, feature_names
    guideline,            \* RISK_THRESHOLDS in force and the recommender's file
    limiter,              \* the RateLimitMiddleware: request_counts, last_cleanup
    clock,                \* time.time(), in seconds since the middleware was built
    handled,              \* the requests the limiter has decided, oldest first
    op,                   \* the call being answered, "idle" between calls
    req,                  \* its arguments
    resp                  \* what it returns

vars ==
    <<started, riskPredictorLoaded, agentLoaded, scalerLoaded, predictor,
      guideline, limiter, clock, handled, op, req, resp>>

\* the rate limiter, its clock and its log
limiterVars == <<limiter, clock, handled>>

globals ==
    <<started, riskPredictorLoaded, agentLoaded, scalerLoaded, predictor, guideline,
      limiterVars>>

\* everything but the RiskPredictor object and the recommender
serverGlobals ==
    <<started, riskPredictorLoaded, agentLoaded, scalerLoaded, limiterVars>>

(***************************************************************************)
(* Program constants                                                       *)
(***************************************************************************)
RISK_MAX == 100

HTTP_OK == 200
HTTP_UNAVAILABLE == 503
HTTP_ERROR == 500

\* PatientInput field ranges (api/models.py)
BP_GE == 50
BP_LE == 250
CHOL_GE == 100
CHOL_LE == 600
THALACH_GE == 50
THALACH_LE == 250
OLDPEAK_GE == 0
OLDPEAK_LE == 100

\* Clinical bound table asserted by the tests of the effect engine
BOUND_BP_MIN == 90
BOUND_BP_MAX == 200
BOUND_CHOL_MIN == 120
BOUND_CHOL_MAX == 400
BOUND_THALACH_MIN == 60
BOUND_THALACH_MAX == 220
BOUND_OLDPEAK_MIN == 0
BOUND_OLDPEAK_MAX == 60

\* RISK_THRESHOLDS
VERY_LOW == 15
LOW == 30
MEDIUM == 50
HIGH == 70

\* risk literals of _apply_escalation_logic
ESCALATE_MIN_RISK == 20
NEVER_MONITOR_RISK == 50
INTENSIVE_RISK == 70
BORDERLINE_FROM == 25
BORDERLINE_BELOW == 35

\* structural findings named by _generate_rationale and _count_risk_factors
CA_SEVERE == 3
CA_MODERATE == 1
CA_STRUCTURAL == 2

\* SEVERE_RISK_FACTORS / MODERATE_RISK_FACTORS (oldpeak in tenths)
SEVERE_TRESTBPS == 160
SEVERE_CHOL == 280
SEVERE_OLDPEAK == 20
MODERATE_TRESTBPS == 140
MODERATE_CHOL == 240
MODERATE_OLDPEAK == 10

(***************************************************************************)
(* Bounds of the model                                                     *)
(***************************************************************************)
\* the oracle's answers to /api/simulate are drawn every RiskStep percent
RiskStep == 25
\* risk scores tried by the recommender lie within NearCut below each cut
\* point (and NearCut - 1 above it)
NearCut == 1

Actions == 0..4

ModifiableFeatures == {"trestbps", "chol", "thalach", "oldpeak"}

NonModifiableFeatures ==
    {"age", "sex", "cp", "fbs", "restecg", "exang", "slope", "ca", "thal"}

FeatureNames == ModifiableFeatures \cup NonModifiableFeatures

(***************************************************************************)
(* Patients.  A patient is a record over the 13 feature names.             *)
(***************************************************************************)
Profiles ==
    { [age |-> 63, sex |-> 1, cp |-> 3, fbs |-> 1, restecg |-> 0,
       exang |-> 0, slope |-> 2, ca |-> 0, thal |-> 6],
      [age |-> 45, sex |-> 0, cp |-> 1, fbs |-> 0, restecg |-> 1,
       exang |-> 1, slope |-> 1, ca |-> 3, thal |-> 3] }

MakePatient(prof, bp, ch, hr, op_) ==
    [age |-> prof.age, sex |-> prof.sex, cp |-> prof.cp, trestbps |-> bp,
     chol |-> ch, fbs |-> prof.fbs, restecg |-> prof.restecg, thalach |-> hr,
     exang |-> prof.exang, oldpeak |-> op_, slope |-> prof.slope,
     ca |-> prof.ca, thal |-> prof.thal]

\* what PatientInput accepts for the four modifiable fields
Accepted(p) ==
    /\ BP_GE <= p.trestbps /\ p.trestbps <= BP_LE
    /\ CHOL_GE <= p.chol /\ p.chol <= CHOL_LE
    /\ THALACH_GE <= p.thalach /\ p.thalach <= THALACH_LE
    /\ OLDPEAK_GE <= p.oldpeak /\ p.oldpeak <= OLDPEAK_LE

SimBp == {BP_GE, 145, BP_LE}
SimChol == {CHOL_GE, 130, 233, CHOL_LE}
SimThalach == {THALACH_GE, 150, 210, THALACH_LE}
SimOldpeak == {OLDPEAK_GE, 23, OLDPEAK_LE}

SimPatients ==
    { MakePatient(prof, bp, ch, hr, o) :
        prof \in Profiles, bp \in SimBp, ch \in SimChol,
        hr \in SimThalach, o \in SimOldpeak }

(***************************************************************************)
(* The risk oracle (RiskPredictor.predict) is a black box: a deterministic *)
(* function of the feature vector that may also raise.  One request asks   *)
(* it about the patient and about the modified patient; any pair of        *)
(* answers is possible provided equal questions get equal answers.         *)
(***************************************************************************)
OracleAnswers(risks, same) ==
    { [ok |-> TRUE, cur |-> c, new |-> n] :
        c \in risks, n \in IF same THEN {} ELSE risks }
    \cup { [ok |-> TRUE, cur |-> c, new |-> c] : c \in risks }
    \cup { [ok |-> FALSE, cur |-> 0, new |-> 0] }

ApiRisks == { r \in 0..RISK_MAX : r % RiskStep = 0 }

(***************************************************************************)
(* ml/risk_predictor.py: the RiskPredictor object.  fitted stands for      *)
(* hasattr(self.model, 'classes_'); feature_names is None or a list of     *)
(* column names.                                                           *)
(***************************************************************************)
\* no call in progress
NoReq == [none |-> TRUE]

\* a call that raised
Raised == [raised |-> TRUE]

NoNames == [none |-> TRUE, names |-> <<>>]
Names(columns) == [none |-> FALSE, names |-> columns]

\* __init__: an unfitted RandomForestClassifier, feature_names None
NewPredictor == [fitted |-> FALSE, feature_names |-> NoNames]

\* the columns of PatientInput in declaration order
FeatureOrder ==
    <<"age", "sex", "cp", "trestbps", "chol", "fbs", "restecg", "thalach",
      "exang", "oldpeak", "slope", "ca", "thal">>

\* the same columns with the first two exchanged
Reordered == <<"sex", "age">> \o SubSeq(FeatureOrder, 3, Len(FeatureOrder))

\* column lists of data frames: the two above, one column renamed, one
\* column missing, one column too many
ColumnLists ==
    { FeatureOrder,
      Reordered,
      <<"wrong_feature">> \o Tail(FeatureOrder),
      SubSeq(FeatureOrder, 1, Len(FeatureOrder) - 1),
      Append(FeatureOrder, "target") }

\* a predictor may be trained on, and asked about, any of them
TrainColumns == ColumnLists
PredictColumns == ColumnLists

\* train(X_train, y_train, X_val, y_val): the length checks raise before
\* anything is stored; feature_names is stored before cross-validation and
\* fit, either of which may raise
PredictorTrain ==
    /\ op = "idle"
    /\ \E columns \in TrainColumns, outcome \in {"invalid", "failed", "fitted"} :
        /\ op' = "predictor.train"
        /\ req' = [columns |-> columns]
        /\ resp' = [raised |-> outcome # "fitted"]
        /\ predictor' =
             CASE outcome = "invalid" -> predictor
               [] outcome = "failed" -> [predictor EXCEPT !.feature_names = Names(columns)]
               [] outcome = "fitted" -> [fitted |-> TRUE, feature_names |-> Names(columns)]
        /\ UNCHANGED <<serverGlobals, guideline>>

\* load(path): a missing or unreadable file raises; a file written by save
\* restores a fitted model and its feature names
PredictorLoad ==
    /\ op = "idle"
    /\ \/ \E columns \in TrainColumns :
            /\ predictor' = [fitted |-> TRUE, feature_names |-> Names(columns)]
            /\ resp' = [raised |-> FALSE]
       \/ /\ predictor' = predictor
          /\ resp' = Raised
    /\ op' = "predictor.load"
    /\ req' = NoReq
    /\ UNCHANGED <<serverGlobals, guideline>>

\* predict with the column comparison made on the sets of names
PredictOutcome_Reorders(self, columns, answer) ==
    IF ~self.fitted
    THEN [raised |-> TRUE, error |-> "ValueError: not trained"]
    ELSE IF self.feature_names.none
    THEN [raised |-> TRUE, error |-> "ValueError: feature names not set"]
    ELSE IF { columns[i] : i \in 1..Len(columns) }
              # { self.feature_names.names[i] : i \in 1..Len(self.feature_names.names) }
    THEN [raised |-> TRUE, error |-> "ValueError: feature mismatch"]
    ELSE IF answer.ok
    THEN [raised |-> FALSE, risk_score |-> answer.cur]
    ELSE [raised |-> TRUE, error |-> "RuntimeError"]

\* predict(patient_data): what it returns or raises, given the object, the
\* frame's columns and the classifier's answer
PredictOutcome(self, columns, answer) ==
    IF ~self.fitted
    THEN [raised |-> TRUE, error |-> "ValueError: not trained"]
    ELSE IF self.feature_names.none
    THEN [raised |-> TRUE, error |-> "ValueError: feature names not set"]
    ELSE IF columns # self.feature_names.names
    THEN [raised |-> TRUE, error |-> "ValueError: feature mismatch"]
    ELSE IF answer.ok
    THEN [raised |-> FALSE, risk_score |-> answer.cur]
    ELSE [raised |-> TRUE, error |-> "RuntimeError"]

\* predict assigns no attribute of self
PredictorPredict ==
    /\ op = "idle"
    /\ \E columns \in PredictColumns, answer \in OracleAnswers(ApiRisks, TRUE) :
        /\ op' = "predictor.predict"
        /\ req' = [columns |-> columns, self |-> predictor]
        /\ resp' = PredictOutcome(predictor, columns, answer)
    /\ predictor' = predictor
    /\ UNCHANGED <<serverGlobals, guideline>>

(***************************************************************************)
(* api/main.py: lifespan                                                   *)
(***************************************************************************)
Lifespan ==
    /\ op = "idle"
    /\ ~started
    /\ started' = TRUE
    /\ riskPredictorLoaded' \in BOOLEAN
    /\ agentLoaded' \in BOOLEAN
    /\ scalerLoaded' \in BOOLEAN
    /\ predictor' = predictor
    /\ guideline' = guideline
    /\ UNCHANGED limiterVars
    /\ op' = "lifespan"
    /\ req' = NoReq
    /\ resp' = NoReq

(***************************************************************************)
(* api/main.py: simulate_intervention                                      *)
(***************************************************************************)
\* a raw value carried in hundredths
Raw100(x) == x * 100

\* pd.DataFrame([patient_dict]): the raw frame of the request
PatientFrame(p) == [f \in FeatureNames |-> Raw100(p[f])]

\* SimulateEffects with the Monitor Only branch falling through to the
\* Lifestyle branch
SimulateEffects_MonitorFallsThrough(p, action) ==
    LET m == PatientFrame(p)
    IN  CASE action \in {0, 1} -> [m EXCEPT !.trestbps = p.trestbps * 95,
                                           !.chol = p.chol * 90,
                                           !.thalach = p.thalach * 105]
          [] action = 2 -> [m EXCEPT !.trestbps = p.trestbps * 90,
                                     !.chol = p.chol * 85]
          [] action = 3 -> [m EXCEPT !.trestbps = p.trestbps * 85,
                                     !.chol = p.chol * 80,
                                     !.thalach = p.thalach * 108,
                                     !.oldpeak = p.oldpeak * 90]
          [] action = 4 -> [m EXCEPT !.trestbps = p.trestbps * 80,
                                     !.chol = p.chol * 75,
                                     !.thalach = p.thalach * 110,
                                     !.oldpeak = p.oldpeak * 80]

\* SimulateEffects with the Lifestyle branch scaling the whole frame
\* (modified_raw *= 0.95) instead of the named columns
SimulateEffects_WholeFrame(p, action) ==
    LET m == PatientFrame(p)
    IN  CASE action = 0 -> m
          [] action = 1 -> [f \in FeatureNames |-> p[f] * 95]
          [] action = 2 -> [m EXCEPT !.trestbps = p.trestbps * 90,
                                     !.chol = p.chol * 85]
          [] action = 3 -> [m EXCEPT !.trestbps = p.trestbps * 85,
                                     !.chol = p.chol * 80,
                                     !.thalach = p.thalach * 108,
                                     !.oldpeak = p.oldpeak * 90]
          [] action = 4 -> [m EXCEPT !.trestbps = p.trestbps * 80,
                                     !.chol = p.chol * 75,
                                     !.thalach = p.thalach * 110,
                                     !.oldpeak = p.oldpeak * 80]

\* SimulateEffects with the Combination Therapy and Lifestyle blood
\* pressure factors swapped
SimulateEffects_SwappedBp(p, action) ==
    LET m == PatientFrame(p)
    IN  CASE action = 0 -> m
          [] action = 1 -> [m EXCEPT !.trestbps = p.trestbps * 85,
                                     !.chol = p.chol * 90,
                                     !.thalach = p.thalach * 105]
          [] action = 2 -> [m EXCEPT !.trestbps = p.trestbps * 90,
                                     !.chol = p.chol * 85]
          [] action = 3 -> [m EXCEPT !.trestbps = p.trestbps * 95,
                                     !.chol = p.chol * 80,
                                     !.thalach = p.thalach * 108,
                                     !.oldpeak = p.oldpeak * 90]
          [] action = 4 -> [m EXCEPT !.trestbps = p.trestbps * 80,
                                     !.chol = p.chol * 75,
                                     !.thalach = p.thalach * 110,
                                     !.oldpeak = p.oldpeak * 80]

\* the in-place multiplications of the handler, one branch per action;
\* percentages are the factors of the source times 100
SimulateEffects(p, action) ==
    LET m == PatientFrame(p)
    IN  CASE action = 0 -> m
          [] action = 1 -> [m EXCEPT !.trestbps = p.trestbps * 95,
                                     !.chol = p.chol * 90,
                                     !.thalach = p.thalach * 105]
          [] action = 2 -> [m EXCEPT !.trestbps = p.trestbps * 90,
                                     !.chol = p.chol * 85]
          [] action = 3 -> [m EXCEPT !.trestbps = p.trestbps * 85,
                                     !.chol = p.chol * 80,
                                     !.thalach = p.thalach * 108,
                                     !.oldpeak = p.oldpeak * 90]
          [] action = 4 -> [m EXCEPT !.trestbps = p.trestbps * 80,
                                     !.chol = p.chol * 75,
                                     !.thalach = p.thalach * 110,
                                     !.oldpeak = p.oldpeak * 80]

Metrics(frame) == [f \in ModifiableFeatures |-> frame[f]]

SimulateResponse(p, action, ans) ==
    LET patient_df == PatientFrame(p)
        modified_raw == SimulateEffects(p, action)
    IN  [status |-> HTTP_OK,
         current_metrics |-> Metrics(patient_df),
         optimized_metrics |-> Metrics(modified_raw),
         modified_raw |-> modified_raw,
         current_risk |-> ans.cur,
         expected_risk |-> ans.new,
         risk_reduction |-> ans.cur - ans.new,
         oracle_calls |-> 2]

\* HTTPException raised before risk_predictor.predict is reached
ErrorResponse(code) == [status |-> code, oracle_calls |-> 0]

\* risk_predictor.predict raised in its calls-th call of the request; the
\* handler's `except Exception` answers 500
OracleRaised(calls) == [status |-> HTTP_ERROR, oracle_calls |-> calls]

SimulateUnavailable == ~riskPredictorLoaded \/ ~agentLoaded

Simulate ==
    /\ op = "idle"
    /\ \E p \in SimPatients, action \in Actions :
        /\ op' = "simulate"
        /\ req' = [patient |-> p, action |-> action]
        /\ UNCHANGED globals
        /\ IF SimulateUnavailable
           THEN resp' = ErrorResponse(HTTP_UNAVAILABLE)
           ELSE IF ~scalerLoaded
           THEN \* the 503 of normalize_patient_data is raised inside the
                \* try block and rewritten by `except Exception`
                resp' = ErrorResponse(HTTP_ERROR)
           ELSE \E ans \in OracleAnswers(ApiRisks,
                              SimulateEffects(p, action) = PatientFrame(p)) :
                    \/ ans.ok /\ resp' = SimulateResponse(p, action, ans)
                    \/ ~ans.ok /\ \E calls \in 1..2 : resp' = OracleRaised(calls)

(***************************************************************************)
(* api/main.py: predict_risk                                               *)
(***************************************************************************)
PredictUnavailable == ~riskPredictorLoaded

Predict ==
    /\ op = "idle"
    /\ \E p \in SimPatients :
        /\ op' = "predict"
        /\ req' = [patient |-> p]
        /\ UNCHANGED globals
        /\ IF PredictUnavailable
           THEN resp' = ErrorResponse(HTTP_UNAVAILABLE)
           ELSE IF ~scalerLoaded
           THEN resp' = ErrorResponse(HTTP_ERROR)
           ELSE \E ans \in OracleAnswers(ApiRisks, TRUE) :
                    \/ ans.ok /\ resp' = [status |-> HTTP_OK,
                                          risk_score |-> ans.cur,
                                          oracle_calls |-> 1]
                    \/ ~ans.ok /\ resp' = OracleRaised(1)

(***************************************************************************)
(* api/main.py: recommend_intervention, answered by the Q-learning agent   *)
(* (ml/rl_agent.py InterventionAgent.recommend).  The greedy action read   *)
(* from the Q-table is any of the five tiers; an untrained agent raises    *)
(* ValueError before the oracle is asked.                                  *)
(***************************************************************************)
\* the guard with the risk_predictor test left out
RecommendUnavailable_AgentOnly == ~agentLoaded

RecommendUnavailable == ~riskPredictorLoaded \/ ~agentLoaded

\* InterventionAgent.recommend: expected_risk is the oracle's second answer
AgentRecommendation(action, ans) ==
    [status |-> HTTP_OK,
     action |-> action,
     current_risk |-> ans.cur,
     expected_final_risk |-> ans.new,
     expected_risk_reduction |-> ans.cur - ans.new,
     oracle_calls |-> 2]

Recommend ==
    /\ op = "idle"
    /\ \E p \in SimPatients :
        /\ op' = "/api/recommend"
        /\ req' = [patient |-> p]
        /\ UNCHANGED globals
        /\ IF RecommendUnavailable
           THEN resp' = ErrorResponse(HTTP_UNAVAILABLE)
           ELSE IF ~scalerLoaded
           THEN resp' = ErrorResponse(HTTP_ERROR)
           ELSE \/ resp' = ErrorResponse(HTTP_ERROR)   \* state_bins is None
                \/ /\ ~riskPredictorLoaded
                   \* risk_predictor.predict on None: AttributeError
                   /\ resp' = ErrorResponse(HTTP_ERROR)
                \/ /\ riskPredictorLoaded
                   /\ \E action \in Actions :
                        \E ans \in OracleAnswers(ApiRisks, action = 0) :
                            \/ ans.ok /\ resp' = AgentRecommendation(action, ans)
                            \/ ~ans.ok /\ \E calls \in 1..2 :
                                             resp' = OracleRaised(calls)

(***************************************************************************)
(* ml/guideline_recommender.py                                             *)
(***************************************************************************)
\* _count_risk_factors on raw data: severe supersedes moderate for each of
\* trestbps, chol, oldpeak and ca; exang = 1 is one moderate factor.  A
\* detail is kept as the name of its message.

\* one thresholded feature with `if` in place of `elif`: a severe value
\* counts twice
FactorOf_Both(value, severe, moderate, severeText, moderateText) ==
    IF value >= severe
    THEN [severe |-> 1, moderate |-> 1, details |-> <<severeText, moderateText>>]
    ELSE IF value >= moderate THEN [severe |-> 0, moderate |-> 1, details |-> <<moderateText>>]
    ELSE [severe |-> 0, moderate |-> 0, details |-> <<>>]

\* one thresholded feature of _count_risk_factors
FactorOf(value, severe, moderate, severeText, moderateText) ==
    IF value >= severe THEN [severe |-> 1, moderate |-> 0, details |-> <<severeText>>]
    ELSE IF value >= moderate THEN [severe |-> 0, moderate |-> 1, details |-> <<moderateText>>]
    ELSE [severe |-> 0, moderate |-> 0, details |-> <<>>]

CountRiskFactors(d) ==
    LET bp == FactorOf(d.trestbps, SEVERE_TRESTBPS, MODERATE_TRESTBPS,
                       "severe hypertension", "moderate hypertension")
        ch == FactorOf(d.chol, SEVERE_CHOL, MODERATE_CHOL,
                       "very high cholesterol", "high cholesterol")
        st == FactorOf(d.oldpeak, SEVERE_OLDPEAK, MODERATE_OLDPEAK,
                       "significant ST depression", "moderate ST depression")
        ex == IF d.exang = 1
              THEN [severe |-> 0, moderate |-> 1, details |-> <<"exercise-induced angina">>]
              ELSE [severe |-> 0, moderate |-> 0, details |-> <<>>]
        ca == FactorOf(d.ca, CA_SEVERE, CA_MODERATE,
                       "multiple vessel disease", "vessel disease")
    IN  [severe |-> bp.severe + ch.severe + st.severe + ex.severe + ca.severe,
         moderate |-> bp.moderate + ch.moderate + st.moderate + ex.moderate + ca.moderate,
         details |-> bp.details \o ch.details \o st.details \o ex.details \o ca.details]

\* _get_base_recommendation with the first cut point read as <=
GetBaseRecommendation_Inclusive(risk_score) ==
    IF risk_score <= VERY_LOW THEN 0
    ELSE IF risk_score < LOW THEN 1
    ELSE IF risk_score < MEDIUM THEN 2
    ELSE IF risk_score < HIGH THEN 3
    ELSE 4

\* _get_base_recommendation with the 50% cut point read as <=
GetBaseRecommendation_MediumInclusive(risk_score) ==
    IF risk_score < VERY_LOW THEN 0
    ELSE IF risk_score < LOW THEN 1
    ELSE IF risk_score <= MEDIUM THEN 2
    ELSE IF risk_score < HIGH THEN 3
    ELSE 4

\* _get_base_recommendation
GetBaseRecommendation(risk_score) ==
    IF risk_score < VERY_LOW THEN 0
    ELSE IF risk_score < LOW THEN 1
    ELSE IF risk_score < MEDIUM THEN 2
    ELSE IF risk_score < HIGH THEN 3
    ELSE 4

\* _apply_escalation_logic, one operator per edge case.  s is the pair of
\* locals [a |-> final_action, r |-> escalation_reasons] when the edge case
\* is reached; the result is the pair after it.

\* edge case 2 entered without looking at base_action
EdgeCase12_Unguarded(base_action, risk_score, rf, s) ==
    IF rf.severe >= 2
    THEN IF base_action < 3
         THEN [a |-> 3, r |-> Append(s.r, "Multiple severe risk factors")]
         ELSE s
    ELSE IF rf.severe >= 1 /\ rf.moderate >= 2
    THEN [a |-> 2, r |-> Append(s.r, "Severe risk factor combined")]
    ELSE s

\* edge cases 1 and 2 (if / elif)
EdgeCase12(base_action, risk_score, rf, s) ==
    IF rf.severe >= 2
    THEN IF base_action < 3
         THEN [a |-> 3, r |-> Append(s.r, "Multiple severe risk factors")]
         ELSE s
    ELSE IF rf.severe >= 1 /\ rf.moderate >= 2
    THEN IF base_action < 2 /\ risk_score >= ESCALATE_MIN_RISK
         THEN [a |-> 2, r |-> Append(s.r, "Severe risk factor combined")]
         ELSE s
    ELSE s

\* edge case 3
EdgeCase3(base_action, risk_score, rf, s) ==
    IF risk_score >= NEVER_MONITOR_RISK /\ s.a = 0
    THEN [a |-> 3, r |-> Append(s.r, "High risk")]
    ELSE s

\* edge case 4
EdgeCase4(base_action, risk_score, rf, s) ==
    IF risk_score >= INTENSIVE_RISK /\ s.a < 3
    THEN [a |-> 4, r |-> Append(s.r, "Very high risk")]
    ELSE s

\* edge case 5
EdgeCase5(base_action, risk_score, rf, s) ==
    IF /\ BORDERLINE_FROM <= risk_score
       /\ risk_score < BORDERLINE_BELOW
       /\ base_action = 1
       /\ (rf.severe >= 1 \/ rf.moderate >= 3)
    THEN [a |-> 2, r |-> Append(s.r, "Borderline risk")]
    ELSE s

\* the edge cases in source order, each reading the tier left by the ones
\* before it
ApplyEscalationLogic(base_action, risk_score, rf) ==
    LET s0 == [a |-> base_action, r |-> <<>>]
        s1 == EdgeCase12(base_action, risk_score, rf, s0)
        s3 == EdgeCase3(base_action, risk_score, rf, s1)
        s4 == EdgeCase4(base_action, risk_score, rf, s3)
        s5 == EdgeCase5(base_action, risk_score, rf, s4)
    IN  [final_action |-> s5.a, escalation_reasons |-> s5.r]

RiskClass(risk_score) ==
    IF risk_score < VERY_LOW THEN "very low"
    ELSE IF risk_score < LOW THEN "low"
    ELSE IF risk_score < MEDIUM THEN "medium"
    ELSE IF risk_score < HIGH THEN "high"
    ELSE "very high"

\* has_structural_disease without the test of ca
HasStructuralDisease_ThalOnly(d) == d.thal \in {6, 7}

\* has_structural_disease of _generate_rationale
HasStructuralDisease(d) == d.thal \in {6, 7} \/ d.ca >= CA_STRUCTURAL

\* _generate_rationale: the parts joined into the text, in order; a part
\* is its template and the value it interpolates
GenerateRationale(risk_score, action, base_action, rf, escalation_reasons, d) ==
    <<[part |-> "risk class", arg |-> RiskClass(risk_score)]>>
    \o (IF rf.severe > 0 \/ rf.moderate > 0
        THEN <<[part |-> "risk factors", arg |-> <<rf.severe, rf.moderate>>]>>
             \o (IF rf.details # <<>>
                 THEN <<[part |-> "specific factors", arg |-> rf.details]>>
                 ELSE <<>>)
        ELSE <<>>)
    \o <<[part |-> "recommended", arg |-> action]>>
    \o (IF escalation_reasons # <<>>
        THEN <<[part |-> "escalation applied", arg |-> escalation_reasons]>>
        ELSE IF action = base_action
        THEN <<[part |-> "guideline", arg |-> action]>>
        ELSE <<>>)
    \o (IF HasStructuralDisease(d) /\ action >= 2
        THEN <<[part |-> "structural note", arg |-> action]>>
        ELSE <<>>)

\* the monotonicity safeguard of recommend() with the comparison dropped
ExpectedRisk_Uncapped(action, current_risk, expected_risk_raw) ==
    expected_risk_raw

\* the monotonicity safeguard of recommend(): an active intervention that
\* the oracle scores above the current risk is capped at the current risk
ExpectedRisk(action, current_risk, expected_risk_raw) ==
    IF action > 0 /\ expected_risk_raw > current_risk
    THEN current_risk
    ELSE expected_risk_raw

(***************************************************************************)
(* ml/intervention_utils.py                                                *)
(*                                                                         *)
(* apply_intervention_effects(features, action): action 0 returns the      *)
(* features unmodified; an active tier lowers trestbps, chol and oldpeak   *)
(* and raises thalach by the tier's base percentage, leaves a value that   *)
(* is already in its optimal band alone, and clamps the result to the      *)
(* clinical bound table.  The nine other features pass through.            *)
(***************************************************************************)
OPTIMAL_BP == 120
OPTIMAL_CHOL == 200

Clamp(x, lo, hi) == IF x < lo THEN lo ELSE IF x > hi THEN hi ELSE x

TierFactor(action) ==
    CASE action = 1 -> [trestbps |-> 95, chol |-> 90, thalach |-> 105, oldpeak |-> 100]
      [] action = 2 -> [trestbps |-> 90, chol |-> 85, thalach |-> 100, oldpeak |-> 100]
      [] action = 3 -> [trestbps |-> 85, chol |-> 80, thalach |-> 108, oldpeak |-> 90]
      [] action = 4 -> [trestbps |-> 80, chol |-> 75, thalach |-> 110, oldpeak |-> 80]

ApplyInterventionEffects(p, action) ==
    IF action = 0 THEN PatientFrame(p)
    ELSE LET k == TierFactor(action)
             m == PatientFrame(p)
         IN  [m EXCEPT
                !.trestbps = IF p.trestbps <= OPTIMAL_BP THEN @
                             ELSE Clamp(p.trestbps * k.trestbps,
                                        Raw100(BOUND_BP_MIN), Raw100(BOUND_BP_MAX)),
                !.chol = IF p.chol <= OPTIMAL_CHOL THEN @
                         ELSE Clamp(p.chol * k.chol,
                                    Raw100(BOUND_CHOL_MIN), Raw100(BOUND_CHOL_MAX)),
                !.thalach = Clamp(p.thalach * k.thalach,
                                  Raw100(BOUND_THALACH_MIN), Raw100(BOUND_THALACH_MAX)),
                !.oldpeak = Clamp(p.oldpeak * k.oldpeak,
                                  Raw100(BOUND_OLDPEAK_MIN), Raw100(BOUND_OLDPEAK_MAX))]

\* ensure_risk_monotonicity giving back the current metrics with the
\* capped risk
EnsureRiskMonotonicity_RevertsMetrics(current_risk, new_risk, current_metrics, optimized_metrics, action) ==
    IF action = 0 THEN <<current_risk, current_metrics>>
    ELSE IF new_risk <= current_risk THEN <<new_risk, optimized_metrics>>
    ELSE <<current_risk, current_metrics>>

\* ensure_risk_monotonicity without the Monitor Only case
EnsureRiskMonotonicity_NoMonitorCase(current_risk, new_risk, current_metrics, optimized_metrics, action) ==
    IF new_risk <= current_risk THEN <<new_risk, optimized_metrics>>
    ELSE <<current_risk, optimized_metrics>>

\* ensure_risk_monotonicity(current_risk, new_risk, current_metrics,
\* optimized_metrics, action) -> (final_risk, final_metrics)
EnsureRiskMonotonicity(current_risk, new_risk, current_metrics, optimized_metrics, action) ==
    IF action = 0 THEN <<current_risk, current_metrics>>
    ELSE IF new_risk <= current_risk THEN <<new_risk, optimized_metrics>>
    ELSE <<current_risk, optimized_metrics>>

(***************************************************************************)
(* Calls into the core                                                     *)
(***************************************************************************)
RecBp == {MODERATE_TRESTBPS - 1, MODERATE_TRESTBPS, SEVERE_TRESTBPS - 1, SEVERE_TRESTBPS}
RecChol == {MODERATE_CHOL - 1, MODERATE_CHOL, SEVERE_CHOL - 1, SEVERE_CHOL}
RecOldpeak == {OLDPEAK_GE, MODERATE_OLDPEAK, SEVERE_OLDPEAK}

RecProfiles ==
    { [age |-> 50, sex |-> 1, cp |-> 3, fbs |-> 0, restecg |-> 0,
       exang |-> e, slope |-> 2, ca |-> c, thal |-> t] :
        e \in {0, 1}, c \in 0..3, t \in {3, 6, 7} }

RecPatients ==
    { MakePatient(prof, bp, ch, 150, o) :
        prof \in RecProfiles, bp \in RecBp, ch \in RecChol, o \in RecOldpeak }

CutPoints ==
    {VERY_LOW, LOW, MEDIUM, HIGH, ESCALATE_MIN_RISK, NEVER_MONITOR_RISK,
     INTENSIVE_RISK, BORDERLINE_FROM, BORDERLINE_BELOW}

RiskPoints ==
    {0, RISK_MAX} \cup { c + d : c \in CutPoints, d \in (-NearCut)..(NearCut - 1) }

\* what the oracle may say about the modified patient once it has said
\* cur about the patient
NewRisks(cur, same) ==
    IF same THEN {cur}
    ELSE {0, cur, RISK_MAX} \cup ({cur - 1, cur + 1} \cap (0..RISK_MAX))

\* GuidelineRecommender.recommend(patient_data, risk_predictor)
Recommendation(p, current_risk, expected_risk_raw) ==
    LET risk_factors == CountRiskFactors(p)
        base_action == GetBaseRecommendation(current_risk)
        esc == ApplyEscalationLogic(base_action, current_risk, risk_factors)
        action == esc.final_action
        expected_risk == ExpectedRisk(action, current_risk, expected_risk_raw)
    IN  [raised |-> FALSE,
         action |-> action,
         current_risk |-> current_risk,
         expected_final_risk |-> expected_risk,
         expected_risk_reduction |-> current_risk - expected_risk,
         rationale |-> GenerateRationale(current_risk, action, base_action,
                                         risk_factors, esc.escalation_reasons, p),
         risk_factors |-> [severe_count |-> risk_factors.severe,
                           moderate_count |-> risk_factors.moderate,
                           details |-> risk_factors.details],
         \* locals of the call, kept for the properties
         base_action |-> base_action,
         escalation_reasons |-> esc.escalation_reasons,
         expected_risk_raw |-> expected_risk_raw]

RecommendedAction(p, current_risk) ==
    ApplyEscalationLogic(GetBaseRecommendation(current_risk), current_risk,
                         CountRiskFactors(p)).final_action

GuidelineRecommend ==
    \E p \in RecPatients :
        /\ op = "idle"
        /\ op' = "recommend"
        /\ req' = [patient |-> p]
        /\ UNCHANGED globals
        /\ \/ resp' = Raised      \* risk_predictor.predict raises
           \/ \E cur \in RiskPoints :
                \E new \in NewRisks(cur,
                             ApplyInterventionEffects(p, RecommendedAction(p, cur))
                                 = PatientFrame(p)) :
                    resp' = Recommendation(p, cur, new)

\* GuidelineRecommender._get_base_recommendation(risk_score)
BaseRecommendation ==
    \E risk_score \in 0..RISK_MAX :
        /\ op = "idle"
        /\ op' = "base"
        /\ req' = [risk_score |-> risk_score]
        /\ resp' = [action |-> GetBaseRecommendation(risk_score)]
        /\ UNCHANGED globals

MetricMaps ==
    { [trestbps |-> 160, chol |-> 280],
      [trestbps |-> 140, chol |-> 240],
      [trestbps |-> 128, chol |-> 210] }

\* ensure_risk_monotonicity called directly
EnsureMonotonicity ==
    \E current_risk \in ApiRisks, new_risk \in ApiRisks,
       current_metrics \in MetricMaps, optimized_metrics \in MetricMaps,
       action \in Actions :
        /\ op = "idle"
        /\ op' = "monotonicity"
        /\ req' = [current_risk |-> current_risk, new_risk |-> new_risk,
                   current_metrics |-> current_metrics,
                   optimized_metrics |-> optimized_metrics, action |-> action]
        /\ resp' = LET r == EnsureRiskMonotonicity(current_risk, new_risk,
                                 current_metrics, optimized_metrics, action)
                   IN  [final_risk |-> r[1], final_metrics |-> r[2]]
        /\ UNCHANGED globals

(***************************************************************************)
(* ml/recommendation_engine.py: InterventionRecommender                    *)
(***************************************************************************)
ENGINE_VERY_HIGH == 70
ENGINE_HIGH == 50
ENGINE_MODERATE == 30
ENGINE_LOW_MODERATE == 15

\* the keys of INTERVENTIONS
INTERVENTIONS == 1..4

\* the first comparison of the ladder read as >
PrimaryAlternative_Exclusive(baseline_risk) ==
    IF baseline_risk > ENGINE_VERY_HIGH
    THEN [primary |-> 4, alternative |-> 3, rationale |-> "very high"]
    ELSE IF baseline_risk >= ENGINE_HIGH
    THEN [primary |-> 3, alternative |-> 4, rationale |-> "elevated"]
    ELSE IF baseline_risk >= ENGINE_MODERATE
    THEN [primary |-> 3, alternative |-> 2, rationale |-> "moderate"]
    ELSE IF baseline_risk >= ENGINE_LOW_MODERATE
    THEN [primary |-> 2, alternative |-> 3, rationale |-> "low-moderate"]
    ELSE [primary |-> 1, alternative |-> 2, rationale |-> "low"]

\* recommend_intervention: primary, alternative and rationale template
PrimaryAlternative(baseline_risk) ==
    IF baseline_risk >= ENGINE_VERY_HIGH
    THEN [primary |-> 4, alternative |-> 3, rationale |-> "very high"]
    ELSE IF baseline_risk >= ENGINE_HIGH
    THEN [primary |-> 3, alternative |-> 4, rationale |-> "elevated"]
    ELSE IF baseline_risk >= ENGINE_MODERATE
    THEN [primary |-> 3, alternative |-> 2, rationale |-> "moderate"]
    ELSE IF baseline_risk >= ENGINE_LOW_MODERATE
    THEN [primary |-> 2, alternative |-> 3, rationale |-> "low-moderate"]
    ELSE [primary |-> 1, alternative |-> 2, rationale |-> "low"]

\* _get_risk_tier
GetRiskTier(risk) ==
    IF risk >= ENGINE_VERY_HIGH THEN "Very High Risk"
    ELSE IF risk >= ENGINE_HIGH THEN "High Risk"
    ELSE IF risk >= ENGINE_MODERATE THEN "Moderate Risk"
    ELSE IF risk >= ENGINE_LOW_MODERATE THEN "Low-Moderate Risk"
    ELSE "Low Risk"

\* sorted(intervention_results.keys())
RECURSIVE SortedKeys(_)
SortedKeys(keys) ==
    IF keys = {} THEN <<>>
    ELSE LET least == CHOOSE k \in keys : \A j \in keys : k <= j
         IN  <<least>> \o SortedKeys(keys \ {least})

\* one entry of all_options with is_alternative compared with primary
Option_AlternativeIsPrimary(action_id, result, primary, alternative) ==
    [action_id |-> action_id,
     new_risk |-> result.new_risk,
     risk_reduction |-> result.risk_reduction,
     pct_reduction |-> result.pct_reduction,
     is_recommended |-> action_id = primary,
     is_alternative |-> action_id = primary]

\* one entry of all_options (the static name, cost, side-effect and
\* monitoring texts of the tier are left out)
Option(action_id, result, primary, alternative) ==
    [action_id |-> action_id,
     new_risk |-> result.new_risk,
     risk_reduction |-> result.risk_reduction,
     pct_reduction |-> result.pct_reduction,
     is_recommended |-> action_id = primary,
     is_alternative |-> action_id = alternative]

AllOptions(intervention_results, primary, alternative) ==
    LET keys == SortedKeys(DOMAIN intervention_results)
    IN  [i \in 1..Len(keys) |->
            Option(keys[i], intervention_results[keys[i]], primary, alternative)]

\* recommend_intervention(baseline_risk, intervention_results); an action
\* id that is no key of INTERVENTIONS raises KeyError
RecommendInterventionResult(baseline_risk, intervention_results) ==
    LET pa == PrimaryAlternative(baseline_risk)
    IN  IF ~(DOMAIN intervention_results \subseteq INTERVENTIONS)
        THEN Raised
        ELSE [raised |-> FALSE,
              recommended_action |-> pa.primary,
              alternative_action |-> pa.alternative,
              rationale |-> [template |-> pa.rationale, risk |-> baseline_risk],
              all_options |-> AllOptions(intervention_results, pa.primary,
                                         pa.alternative),
              baseline_risk |-> baseline_risk,
              risk_tier |-> GetRiskTier(baseline_risk)]

\* outcomes a caller may supply for an action
Outcomes ==
    { [new_risk |-> 40, risk_reduction |-> 20, pct_reduction |-> 33],
      [new_risk |-> 65, risk_reduction |-> -5, pct_reduction |-> -8] }

RecommendIntervention ==
    /\ op = "idle"
    /\ \E baseline_risk \in 0..RISK_MAX, ids \in SUBSET Actions :
        \E intervention_results \in [ids -> Outcomes] :
            /\ op' = "recommend_intervention"
            /\ req' = [baseline_risk |-> baseline_risk,
                       intervention_results |-> intervention_results]
            /\ resp' = RecommendInterventionResult(baseline_risk,
                                                   intervention_results)
            /\ UNCHANGED globals

(***************************************************************************)
(* recommend called twice by one caller on the same DataFrame with the     *)
(* same oracle.  The recommender object has no fields (__init__ stores     *)
(* nothing); what can carry over from the first call is the caller's       *)
(* DataFrame.  The oracle is deterministic: asked again about a frame it   *)
(* gives the answer it gave before.                                        *)
(***************************************************************************)
\* the raw values of a frame, for the integer threshold comparisons
\* (x / 100 >= t exactly when x \div 100 >= t)
FloorPatient(frame) == [f \in FeatureNames |-> frame[f] \div 100]

\* the effects applied to patient_data itself instead of a copy
DataAfterRecommend_InPlace(p, action) == ApplyInterventionEffects(p, action)

\* the caller's DataFrame after recommend: apply_intervention_effects gets
\* patient_data.copy(), every other use only reads
DataAfterRecommend(p, action) == PatientFrame(p)

RecommendFirst ==
    /\ op = "idle"
    /\ \E p \in RecPatients :
        /\ op' = "recommend once"
        /\ UNCHANGED globals
        /\ \/ /\ req' = [patient |-> p, held |-> PatientFrame(p)]
              /\ resp' = [first |-> Raised]
           \/ \E cur \in RiskPoints :
                \E new \in NewRisks(cur,
                             ApplyInterventionEffects(p, RecommendedAction(p, cur))
                                 = PatientFrame(p)) :
                    /\ req' = [patient |-> p,
                               held |-> DataAfterRecommend(p, RecommendedAction(p, cur))]
                    /\ resp' = [first |-> Recommendation(p, cur, new)]

\* the second call: the oracle is asked about the frame the caller holds
\* now; that is the original frame (answer current_risk again) or the
\* frame it answered expected_risk_raw for
RecommendAgain ==
    /\ op = "recommend once"
    /\ op' = "recommend twice"
    /\ UNCHANGED <<globals, req>>
    /\ LET p == req.patient
           q == FloorPatient(req.held)
           first == resp.first
       IN  IF first.raised
           THEN resp' = [first |-> first, second |-> Raised]
           ELSE IF req.held = PatientFrame(p)
           THEN resp' = [first |-> first,
                         second |-> Recommendation(p, first.current_risk,
                                                   first.expected_risk_raw)]
           ELSE \E new \in NewRisks(first.expected_risk_raw,
                                    RecommendedAction(q, first.expected_risk_raw) = 0) :
                    resp' = [first |-> first,
                             second |-> Recommendation(q, first.expected_risk_raw, new)]

(***************************************************************************)
(* GuidelineRecommender.save and load.  The recommender has no fields;     *)
(* what its recommendations read is the module's RISK_THRESHOLDS.  The     *)
(* file at the path is written by save or put there by something else      *)
(* (a pickled RL agent from an earlier release, any other file).           *)
(***************************************************************************)
DefaultThresholds ==
    [very_low |-> VERY_LOW, low |-> LOW, medium |-> MEDIUM, high |-> HIGH]

\* thresholds as another JSON configuration may carry them
OtherThresholds ==
    [very_low |-> VERY_LOW - 5, low |-> LOW - 5, medium |-> MEDIUM - 5,
     high |-> HIGH - 5]

NoFile == [kind |-> "missing"]

\* what save writes: a JSON object with type and risk_thresholds
ConfigFile(thresholds) ==
    [kind |-> "json object", type |-> "guideline_recommender",
     risk_thresholds |-> thresholds]

\* files of other origin: bytes that are not UTF-8 text (a binary pickle),
\* text that is not JSON (an ASCII pickle, an empty file), JSON that is
\* not an object (a list, a number), a JSON object of another tool
ForeignFiles ==
    { [kind |-> "binary"],
      [kind |-> "text"],
      [kind |-> "json non-object"],
      [kind |-> "json object", type |-> "other",
       risk_thresholds |-> OtherThresholds] }

\* load catching json.JSONDecodeError only
LoadOutcome_JsonDecodeOnly(file) ==
    CASE file.kind = "missing" -> [raised |-> FALSE, log |-> "not found"]
      [] file.kind = "binary" -> [raised |-> TRUE, log |-> "UnicodeDecodeError"]
      [] file.kind = "text" -> [raised |-> FALSE, log |-> "not a configuration"]
      [] file.kind = "json non-object" -> [raised |-> TRUE, log |-> "AttributeError"]
      [] file.kind = "json object" -> [raised |-> FALSE, log |-> "loaded"]

\* load(path): a missing path returns; UnicodeDecodeError and
\* JSONDecodeError are caught; config.get on parsed JSON that is no dict
\* raises AttributeError, which is not caught
LoadOutcome(file) ==
    CASE file.kind = "missing" -> [raised |-> FALSE, log |-> "not found"]
      [] file.kind = "binary" -> [raised |-> FALSE, log |-> "not a configuration"]
      [] file.kind = "text" -> [raised |-> FALSE, log |-> "not a configuration"]
      [] file.kind = "json non-object" -> [raised |-> TRUE, log |-> "AttributeError"]
      [] file.kind = "json object" -> [raised |-> FALSE, log |-> "loaded"]

\* load only logs what it read: RISK_THRESHOLDS stays as it is
ThresholdsAfterLoad(thresholds, file) == thresholds

RecommenderSave ==
    /\ op = "idle"
    /\ op' = "recommender.save"
    /\ req' = NoReq
    /\ resp' = [raised |-> FALSE]
    /\ guideline' = [guideline EXCEPT !.file = ConfigFile(guideline.risk_thresholds)]
    /\ UNCHANGED <<serverGlobals, predictor>>

RecommenderLoad ==
    /\ op = "idle"
    /\ op' = "recommender.load"
    /\ req' = [file |-> guideline.file]
    /\ resp' = LoadOutcome(guideline.file)
    /\ guideline' = [guideline EXCEPT
                        !.risk_thresholds = ThresholdsAfterLoad(@, guideline.file)]
    /\ UNCHANGED <<serverGlobals, predictor>>

\* the file at the path is removed or replaced from outside
FileReplaced ==
    /\ op = "idle"
    /\ \E file \in ForeignFiles \cup {NoFile} :
        /\ file # guideline.file
        /\ guideline' = [guideline EXCEPT !.file = file]
    /\ op' = "file replaced"
    /\ req' = NoReq
    /\ resp' = NoReq
    /\ UNCHANGED <<serverGlobals, predictor>>

\* _get_base_recommendation reading RISK_THRESHOLDS as it is now
BaseWithThresholds(thresholds, risk_score) ==
    IF risk_score < thresholds.very_low THEN 0
    ELSE IF risk_score < thresholds.low THEN 1
    ELSE IF risk_score < thresholds.medium THEN 2
    ELSE IF risk_score < thresholds.high THEN 3
    ELSE 4

BaseAfterLoads ==
    /\ op = "idle"
    /\ \E risk_score \in 0..RISK_MAX :
        /\ op' = "base after loads"
        /\ req' = [risk_score |-> risk_score]
        /\ resp' = [action |-> BaseWithThresholds(guideline.risk_thresholds,
                                                  risk_score)]
    /\ UNCHANGED globals

(***************************************************************************)
(* _apply_escalation_logic run one edge case at a time.  resp holds the    *)
(* locals final_action and escalation_reasons, and next_case the edge case *)
(* about to be evaluated.                                                  *)
(***************************************************************************)
\* the tallies _count_risk_factors can produce
Tallies ==
    { [severe |-> CountRiskFactors(p).severe,
       moderate |-> CountRiskFactors(p).moderate] : p \in RecPatients }

\* recommend: base_action from the risk score, then _apply_escalation_logic
\* entered with final_action = base_action and no reasons
EscalationCall ==
    \E risk_score \in 0..RISK_MAX, rf \in Tallies :
        /\ op = "idle"
        /\ op' = "escalation"
        /\ req' = [base_action |-> GetBaseRecommendation(risk_score),
                   risk_score |-> risk_score, risk_factors |-> rf]
        /\ resp' = [final_action |-> GetBaseRecommendation(risk_score),
                    escalation_reasons |-> <<>>, next_case |-> "1-2"]
        /\ UNCHANGED globals

EscalationLocals == [a |-> resp.final_action, r |-> resp.escalation_reasons]

EscalationEdgeCase12 ==
    /\ op = "escalation" /\ resp.next_case = "1-2"
    /\ LET s == EdgeCase12(req.base_action, req.risk_score, req.risk_factors,
                           EscalationLocals)
       IN  resp' = [final_action |-> s.a, escalation_reasons |-> s.r,
                    next_case |-> "3"]
    /\ UNCHANGED <<globals, op, req>>

EscalationEdgeCase3 ==
    /\ op = "escalation" /\ resp.next_case = "3"
    /\ LET s == EdgeCase3(req.base_action, req.risk_score, req.risk_factors,
                          EscalationLocals)
       IN  resp' = [final_action |-> s.a, escalation_reasons |-> s.r,
                    next_case |-> "4"]
    /\ UNCHANGED <<globals, op, req>>

EscalationEdgeCase4 ==
    /\ op = "escalation" /\ resp.next_case = "4"
    /\ LET s == EdgeCase4(req.base_action, req.risk_score, req.risk_factors,
                          EscalationLocals)
       IN  resp' = [final_action |-> s.a, escalation_reasons |-> s.r,
                    next_case |-> "5"]
    /\ UNCHANGED <<globals, op, req>>

EscalationEdgeCase5 ==
    /\ op = "escalation" /\ resp.next_case = "5"
    /\ LET s == EdgeCase5(req.base_action, req.risk_score, req.risk_factors,
                          EscalationLocals)
       IN  resp' = [final_action |-> s.a, escalation_reasons |-> s.r,
                    next_case |-> "return"]
    /\ UNCHANGED <<globals, op, req>>

(***************************************************************************)
(* api/rate_limit.py: RateLimitMiddleware                                  *)
(*                                                                         *)
(* Time is in whole seconds.  dispatch runs _cleanup_old_entries and       *)
(* _check_rate_limit without awaiting in between, so one dispatch is one   *)
(* step up to the hand-over to the endpoint; each of the two methods       *)
(* reads the clock itself.                                                 *)
(***************************************************************************)
WINDOW_SECONDS == 60
cleanup_interval == 60
HTTP_TOO_MANY_REQUESTS == 429

\* Settings.rate_limit_enabled, at its default
rate_limit_enabled == TRUE

\* Settings.rate_limit_requests (default 100, at least 1), scaled down
rate_limit_requests == 2

TimeStep == 20
MaxTime == 80
MaxRequests == 5

NoHeader == ""
NoClient == "none"
ClientA == "10.0.0.1"
ClientB == "10.0.0.2"

\* the requests that arrive: X-Forwarded-For as the list it holds, X-Real-IP,
\* and the host of the connection
Requests ==
    [path : {"/health", "/api/predict"},
     forwarded_for : {<<>>, <<ClientB, ClientA>>},
     real_ip : {NoHeader, ClientA},
     client : {NoClient, ClientB}]

\* _get_client_ip
GetClientIp(request) ==
    IF request.forwarded_for # <<>> THEN request.forwarded_for[1]
    ELSE IF request.real_ip # NoHeader THEN request.real_ip
    ELSE IF request.client # NoClient THEN request.client
    ELSE "unknown"

\* RateLimitMiddleware.__init__
NewLimiter == [request_counts |-> [ip \in {} |-> <<>>], last_cleanup |-> 0]

\* [(ts, count) for ts, count in entries if ts > cutoff_time]
RecentRequests(entries, cutoff_time) ==
    LET Recent(entry) == entry[1] > cutoff_time
    IN  SelectSeq(entries, Recent)

RECURSIVE TotalRequests(_)
\* sum(count for _, count in recent_requests)
TotalRequests(entries) ==
    IF entries = <<>> THEN 0 ELSE Head(entries)[2] + TotalRequests(Tail(entries))

\* defaultdict(list): a key that is read is there afterwards
EntriesOf(request_counts, ip) ==
    IF ip \in DOMAIN request_counts THEN request_counts[ip] ELSE <<>>

\* _cleanup_old_entries, reading the clock at current_time
CleanupOldEntries(self, current_time) ==
    IF current_time - self.last_cleanup > cleanup_interval
    THEN LET cutoff_time == current_time - WINDOW_SECONDS
             kept == {ip \in DOMAIN self.request_counts :
                         RecentRequests(self.request_counts[ip], cutoff_time) # <<>>}
         IN  [request_counts |->
                  [ip \in kept |-> RecentRequests(self.request_counts[ip], cutoff_time)],
              last_cleanup |-> current_time]
    ELSE self

\* _check_rate_limit with the limit itself still allowed
CheckRateLimit_Inclusive(self, ip, limit, current_time) ==
    LET cutoff_time == current_time - WINDOW_SECONDS
        recent_requests == RecentRequests(EntriesOf(self.request_counts, ip), cutoff_time)
        total_requests == TotalRequests(recent_requests)
        is_allowed == total_requests <= limit
        stored == IF is_allowed THEN Append(recent_requests, <<current_time, 1>>)
                  ELSE recent_requests
    IN  [self |-> [self EXCEPT !.request_counts =
                      [k \in DOMAIN self.request_counts \cup {ip} |->
                          IF k = ip THEN stored ELSE self.request_counts[k]]],
         is_allowed |-> is_allowed,
         total_requests |-> total_requests]

\* _check_rate_limit recording the request before it decides
CheckRateLimit_RecordsRejected(self, ip, limit, current_time) ==
    LET cutoff_time == current_time - WINDOW_SECONDS
        recent_requests == RecentRequests(EntriesOf(self.request_counts, ip), cutoff_time)
        total_requests == TotalRequests(recent_requests)
        is_allowed == total_requests < limit
        stored == Append(recent_requests, <<current_time, 1>>)
    IN  [self |-> [self EXCEPT !.request_counts =
                      [k \in DOMAIN self.request_counts \cup {ip} |->
                          IF k = ip THEN stored ELSE self.request_counts[k]]],
         is_allowed |-> is_allowed,
         total_requests |-> total_requests]

\* _check_rate_limit, reading the clock at current_time
CheckRateLimit(self, ip, limit, current_time) ==
    LET cutoff_time == current_time - WINDOW_SECONDS
        recent_requests == RecentRequests(EntriesOf(self.request_counts, ip), cutoff_time)
        total_requests == TotalRequests(recent_requests)
        is_allowed == total_requests < limit
        stored == IF is_allowed THEN Append(recent_requests, <<current_time, 1>>)
                  ELSE recent_requests
    IN  [self |-> [self EXCEPT !.request_counts =
                      [k \in DOMAIN self.request_counts \cup {ip} |->
                          IF k = ip THEN stored ELSE self.request_counts[k]]],
         is_allowed |-> is_allowed,
         total_requests |-> total_requests]

\* the clock at a read that follows a read at t
Later(t) == {t, t + TimeStep} \cap (0..MaxTime)

\* dispatch: the request goes to the endpoint untouched, or is counted and
\* then forwarded or rejected
Dispatch ==
    /\ op = "idle"
    /\ Len(handled) < MaxRequests
    /\ \E request \in Requests :
        /\ op' = "dispatch"
        /\ req' = request
        /\ UNCHANGED <<started, riskPredictorLoaded, agentLoaded, scalerLoaded,
                       predictor, guideline>>
        /\ IF ~rate_limit_enabled \/ request.path \in {"/", "/health"}
           THEN /\ resp' = [limited |-> FALSE, rejected |-> FALSE]
                /\ UNCHANGED limiterVars
           ELSE \E t1 \in Later(clock) : \E t2 \in Later(t1) :
                LET cleaned == CleanupOldEntries(limiter, t1)
                    client_ip == GetClientIp(request)
                    check == CheckRateLimit(cleaned, client_ip, rate_limit_requests, t2)
                IN  /\ limiter' = check.self
                    /\ clock' = t2
                    /\ handled' = Append(handled, [ip |-> client_ip, ts |-> t2,
                                                   allowed |-> check.is_allowed])
                    /\ resp' =
                         IF check.is_allowed
                         THEN [limited |-> TRUE, rejected |-> FALSE,
                               client_ip |-> client_ip, time |-> t2,
                               current_count |-> check.total_requests,
                               remaining |-> rate_limit_requests
                                                - check.total_requests - 1]
                         ELSE [limited |-> TRUE, rejected |-> TRUE,
                               status |-> HTTP_TOO_MANY_REQUESTS,
                               client_ip |-> client_ip, time |-> t2,
                               current_count |-> check.total_requests,
                               remaining |-> 0]

\* time passes between requests
Tick ==
    /\ op = "idle"
    /\ clock + TimeStep <= MaxTime
    /\ clock' = clock + TimeStep
    /\ UNCHANGED <<started, riskPredictorLoaded, agentLoaded, scalerLoaded,
                   predictor, guideline, limiter, handled, op, req, resp>>

(***************************************************************************)
(* Specification of the API server                                         *)
(***************************************************************************)
Init ==
    /\ started = FALSE
    /\ riskPredictorLoaded = FALSE
    /\ agentLoaded = FALSE
    /\ scalerLoaded = FALSE
    /\ predictor = NewPredictor
    /\ guideline = [risk_thresholds |-> DefaultThresholds, file |-> NoFile]
    /\ limiter = NewLimiter
    /\ clock = 0
    /\ handled = <<>>
    /\ op = "idle"
    /\ req = NoReq
    /\ resp = NoReq

\* the caller takes the answer; the next call starts from an idle core
\* (every call is synchronous and keeps nothing between calls)
Return ==
    /\ op # "idle"
    /\ op = "escalation" => resp.next_case = "return"
    /\ op' = "idle"
    /\ req' = NoReq
    /\ resp' = NoReq
    /\ UNCHANGED globals

Next ==
    \/ Lifespan
    \/ Predict
    \/ Recommend
    \/ Simulate
    \/ Return

Spec == Init /\ [][Next]_vars

(***************************************************************************)
(* Specification of the core called as a library, with no server started   *)
(***************************************************************************)
NextCore ==
    \/ GuidelineRecommend
    \/ RecommendIntervention
    \/ BaseRecommendation
    \/ EnsureMonotonicity
    \/ Return

SpecCore == Init /\ [][NextCore]_vars

(***************************************************************************)
(* Specification of the escalation logic, stepped through its edge cases   *)
(***************************************************************************)
NextEscalation ==
    \/ EscalationCall
    \/ EscalationEdgeCase12
    \/ EscalationEdgeCase3
    \/ EscalationEdgeCase4
    \/ EscalationEdgeCase5
    \/ Return

SpecEscalation == Init /\ [][NextEscalation]_vars

(***************************************************************************)
(* Specification of a caller that asks for the same recommendation twice   *)
(***************************************************************************)
NextRepeat ==
    \/ RecommendFirst
    \/ RecommendAgain
    \/ Return

SpecRepeat == Init /\ [][NextRepeat]_vars

(***************************************************************************)
(* Specification of a RiskPredictor object and its callers                 *)
(***************************************************************************)
NextPredictor ==
    \/ PredictorTrain
    \/ PredictorLoad
    \/ PredictorPredict
    \/ Return

SpecPredictor == Init /\ [][NextPredictor]_vars

(***************************************************************************)
(* Specification of the recommender's persistence                          *)
(***************************************************************************)
NextPersistence ==
    \/ RecommenderSave
    \/ RecommenderLoad
    \/ FileReplaced
    \/ BaseAfterLoads
    \/ Return

SpecPersistence == Init /\ [][NextPersistence]_vars

NextRateLimit == Dispatch \/ Tick \/ Return

SpecRateLimit == Init /\ [][NextRateLimit]_vars

(***************************************************************************)
(* Claims about /api/simulate                                              *)
(***************************************************************************)
SimulateAnswered == op = "simulate" /\ resp.status = HTTP_OK

Abs(x) == IF x < 0 THEN -x ELSE x

\* magnitude of the change of feature f under an action, in hundredths
Magnitude(p, f, action) == Abs(SimulateEffects(p, action)[f] - PatientFrame(p)[f])

\* C4: simulate(patient, action) with an action in 1..4 answers with
\* expected_risk <= current_risk and risk_reduction >= 0, whatever the oracle.
C4_SimulateRiskNeverIncreases ==
    (SimulateAnswered /\ req.action \in 1..4) =>
        /\ resp.expected_risk <= resp.current_risk
        /\ resp.risk_reduction >= 0

\* C5: with action 0 the effect engine returns the input frame in every
\* field, and simulate reports optimized_metrics = current_metrics and
\* risk_reduction = 0.
C5_MonitorOnlyIdentity ==
    (SimulateAnswered /\ req.action = 0) =>
        /\ resp.modified_raw = PatientFrame(req.patient)
        /\ resp.optimized_metrics = resp.current_metrics
        /\ resp.current_metrics = Metrics(PatientFrame(req.patient))
        /\ resp.expected_risk = resp.current_risk
        /\ resp.risk_reduction = 0

C5_Witness ==
    /\ SimulateAnswered
    /\ req.action = 0
    /\ req.patient.trestbps = BP_LE
    /\ resp.current_risk = RISK_MAX
    /\ resp.optimized_metrics.trestbps = Raw100(BP_LE)

\* C6 as stated: for every modifiable feature the change made by action
\* k+1 is at least the change made by action k, k in 1..3.
C6_TierOrderingAllFeatures ==
    (SimulateAnswered /\ req.action \in 1..3) =>
        \A f \in ModifiableFeatures :
            Magnitude(req.patient, f, req.action + 1)
                >= Abs(resp.optimized_metrics[f] - resp.current_metrics[f])

\* C6 amended: the ordering holds for trestbps, chol and oldpeak for every
\* k in 1..3; for thalach it holds for k in 2..3 only, because Single
\* Medication (action 2) leaves thalach unchanged while Lifestyle
\* (action 1) raises it by 5%.
C6_TierOrderingAmended ==
    (SimulateAnswered /\ req.action \in 1..3) =>
        /\ \A f \in {"trestbps", "chol", "oldpeak"} :
              Magnitude(req.patient, f, req.action + 1)
                  >= Abs(resp.optimized_metrics[f] - resp.current_metrics[f])
        /\ req.action \in 2..3 =>
              Magnitude(req.patient, "thalach", req.action + 1)
                  >= Abs(resp.optimized_metrics.thalach - resp.current_metrics.thalach)
        /\ req.action = 2 =>
              resp.optimized_metrics.thalach = resp.current_metrics.thalach

C6_Witness ==
    /\ SimulateAnswered
    /\ req.action = 2
    /\ resp.optimized_metrics.trestbps < resp.current_metrics.trestbps
    /\ resp.optimized_metrics.thalach = resp.current_metrics.thalach
    /\ Magnitude(req.patient, "thalach", 1) > 0

\* C7: for every accepted patient and every action the values produced by
\* the effect engine stay inside the clinical bound table:
\* 90 <= trestbps <= 200, 120 <= chol <= 400, 60 <= thalach <= 220,
\* 0 <= oldpeak <= 6.
C7_WithinClinicalBounds ==
    (SimulateAnswered /\ Accepted(req.patient)) =>
        /\ Raw100(BOUND_BP_MIN) <= resp.optimized_metrics.trestbps
        /\ resp.optimized_metrics.trestbps <= Raw100(BOUND_BP_MAX)
        /\ Raw100(BOUND_CHOL_MIN) <= resp.optimized_metrics.chol
        /\ resp.optimized_metrics.chol <= Raw100(BOUND_CHOL_MAX)
        /\ Raw100(BOUND_THALACH_MIN) <= resp.optimized_metrics.thalach
        /\ resp.optimized_metrics.thalach <= Raw100(BOUND_THALACH_MAX)
        /\ Raw100(BOUND_OLDPEAK_MIN) <= resp.optimized_metrics.oldpeak
        /\ resp.optimized_metrics.oldpeak <= Raw100(BOUND_OLDPEAK_MAX)

\* C8: for every patient and every action the effect engine leaves the
\* nine non-modifiable features equal to their input values.
C8_NonModifiableUnchanged ==
    SimulateAnswered =>
        \A f \in NonModifiableFeatures :
            resp.modified_raw[f] = PatientFrame(req.patient)[f]

C8_Witness ==
    /\ SimulateAnswered
    /\ req.action = 1
    /\ req.patient.age = 63
    /\ resp.modified_raw.age = Raw100(63)
    /\ resp.modified_raw.trestbps # PatientFrame(req.patient).trestbps

(***************************************************************************)
(* Claims about the core                                                   *)
(***************************************************************************)
Recommended == op = "recommend" /\ ~resp.raised

Min(a, b) == IF a <= b THEN a ELSE b

\* C1: GuidelineRecommender.recommend returns expected_final_risk <=
\* current_risk whenever the chosen action is >= 1, expected_final_risk =
\* current_risk when the chosen action is 0, and a risk reduction that is
\* never negative, whatever the oracle answers for the modified features.
C1_RecommendRiskNeverIncreases ==
    Recommended =>
        /\ resp.action >= 1 => resp.expected_final_risk <= resp.current_risk
        /\ resp.action = 0 => resp.expected_final_risk = resp.current_risk
        /\ resp.expected_risk_reduction >= 0
        /\ resp.expected_risk_reduction
               = resp.current_risk - resp.expected_final_risk

C1_Witness ==
    /\ Recommended
    /\ resp.action >= 1
    /\ resp.expected_risk_raw > resp.current_risk
    /\ resp.expected_final_risk = resp.current_risk
    /\ resp.expected_risk_reduction = 0

\* C2: for every action in 1..4 the safeguard returns final_risk =
\* min(current_risk, new_risk) and the simulated metrics; when the
\* simulated risk is higher the risk is capped and the metrics returned
\* are still the simulated ones.
C2_SafeguardCapsRiskKeepsMetrics ==
    (op = "monotonicity" /\ req.action \in 1..4) =>
        /\ resp.final_risk = Min(req.current_risk, req.new_risk)
        /\ resp.final_metrics = req.optimized_metrics

C2_Witness ==
    /\ op = "monotonicity"
    /\ req.action \in 1..4
    /\ req.new_risk > req.current_risk
    /\ req.optimized_metrics # req.current_metrics
    /\ resp.final_risk = req.current_risk
    /\ resp.final_metrics = req.optimized_metrics

\* C3: with action 0 the safeguard returns (current_risk, current_metrics)
\* whatever the simulated risk and metrics are.
C3_SafeguardMonitorOnly ==
    (op = "monotonicity" /\ req.action = 0) =>
        /\ resp.final_risk = req.current_risk
        /\ resp.final_metrics = req.current_metrics

C3_Witness ==
    /\ op = "monotonicity"
    /\ req.action = 0
    /\ req.new_risk < req.current_risk
    /\ req.optimized_metrics # req.current_metrics
    /\ resp.final_risk = req.current_risk
    /\ resp.final_metrics = req.current_metrics

\* the band table of the claim
InBand(risk, tier) ==
    /\ risk < 15 => tier = 0
    /\ (15 <= risk /\ risk < 30) => tier = 1
    /\ (30 <= risk /\ risk < 50) => tier = 2
    /\ (50 <= risk /\ risk < 70) => tier = 3
    /\ risk >= 70 => tier = 4

\* C9: the base tier depends on the risk score alone, with half-open
\* bands: < 15 gives 0, [15, 30) gives 1, [30, 50) gives 2, [50, 70) gives
\* 3, >= 70 gives 4; each cut point belongs to the upper tier.
C9_BaseTierBands ==
    /\ op = "base" => InBand(req.risk_score, resp.action)
    /\ Recommended => InBand(resp.current_risk, resp.base_action)

C9_Witness ==
    /\ op = "base"
    /\ req.risk_score = VERY_LOW
    /\ resp.action = 1

\* C10: whenever the tally has severe_count >= 2 the recommended action is
\* at least 3, for every risk score.
C10_TwoSevereAtLeastCombination ==
    (Recommended /\ resp.risk_factors.severe_count >= 2) => resp.action >= 3


(***************************************************************************)
(* Claims about the escalation logic                                       *)
(***************************************************************************)
EscalationReturns == op = "escalation" /\ resp.next_case = "return"

\* C11: for every risk score and every risk-factor tally, the action the
\* escalation logic returns is at least the base tier derived from the
\* risk score, and is one of the tiers 0..4.
C11_FinalAtLeastBase ==
    EscalationReturns =>
        /\ resp.final_action >= req.base_action
        /\ resp.final_action \in Actions

\* the escalation logic returns a tier above the base tier
C11_Witness ==
    /\ EscalationReturns
    /\ resp.final_action > req.base_action
    /\ resp.escalation_reasons # <<>>

\* C12: for every patient whose current risk is at least 50, recommend
\* returns an action of at least 3 (never Monitor Only), whatever the
\* risk-factor tally.
C12_HighRiskAtLeastCombination ==
    (Recommended /\ resp.current_risk >= NEVER_MONITOR_RISK) => resp.action >= 3

\* a patient with no risk factor at all, at exactly 50%, gets tier 3
C12_Witness ==
    /\ Recommended
    /\ resp.current_risk = NEVER_MONITOR_RISK
    /\ resp.risk_factors.severe_count = 0
    /\ resp.risk_factors.moderate_count = 0
    /\ resp.action = 3

(***************************************************************************)
(* Claims about repeated recommendations                                   *)
(***************************************************************************)
RecommendedTwice == op = "recommend twice"

EngineAnswered == op = "recommend_intervention" /\ ~resp.raised

EngineChoice == <<resp.recommended_action, resp.alternative_action, resp.risk_tier>>

\* C14: recommend_intervention picks (primary, alternative) from the
\* baseline risk alone: >= 70 gives (4,3), 50..<70 gives (3,4), 30..<50
\* gives (3,2), 15..<30 gives (2,3), < 15 gives (1,2), whatever outcomes
\* are supplied; the risk_tier label follows the same cut points.
C14_ChoiceFromBaselineRisk ==
    EngineAnswered =>
        LET r == req.baseline_risk
        IN  /\ r >= ENGINE_VERY_HIGH => EngineChoice = <<4, 3, "Very High Risk">>
            /\ (ENGINE_HIGH <= r /\ r < ENGINE_VERY_HIGH)
                   => EngineChoice = <<3, 4, "High Risk">>
            /\ (ENGINE_MODERATE <= r /\ r < ENGINE_HIGH)
                   => EngineChoice = <<3, 2, "Moderate Risk">>
            /\ (ENGINE_LOW_MODERATE <= r /\ r < ENGINE_MODERATE)
                   => EngineChoice = <<2, 3, "Low-Moderate Risk">>
            /\ r < ENGINE_LOW_MODERATE => EngineChoice = <<1, 2, "Low Risk">>

\* at exactly 70% tier 4 is chosen although the outcome supplied for it is
\* a risk increase and the one supplied for tier 3 a reduction
C14_Witness ==
    /\ EngineAnswered
    /\ req.baseline_risk = ENGINE_VERY_HIGH
    /\ resp.recommended_action = 4
    /\ DOMAIN req.intervention_results = {3, 4}
    /\ req.intervention_results[4].risk_reduction < 0
    /\ req.intervention_results[3].risk_reduction > 0

\* C15: all_options has exactly one entry per supplied action id, in
\* strictly ascending id order, each with the supplied new_risk,
\* risk_reduction and pct_reduction, is_recommended exactly for the primary
\* and is_alternative exactly for the alternative.
C15_AllOptionsComplete ==
    EngineAnswered =>
        LET o == resp.all_options
            res == req.intervention_results
        IN  /\ Len(o) = Cardinality(DOMAIN res)
            /\ { o[i].action_id : i \in 1..Len(o) } = DOMAIN res
            /\ \A i, j \in 1..Len(o) : i < j => o[i].action_id < o[j].action_id
            /\ \A i \in 1..Len(o) :
                 /\ o[i].new_risk = res[o[i].action_id].new_risk
                 /\ o[i].risk_reduction = res[o[i].action_id].risk_reduction
                 /\ o[i].pct_reduction = res[o[i].action_id].pct_reduction
                 /\ o[i].is_recommended <=> (o[i].action_id = resp.recommended_action)
                 /\ o[i].is_alternative <=> (o[i].action_id = resp.alternative_action)

\* all four tiers supplied with differing outcomes; the list marks one
\* entry recommended and another alternative
C15_Witness ==
    /\ EngineAnswered
    /\ Len(resp.all_options) = 4
    /\ resp.all_options[1].new_risk # resp.all_options[2].new_risk
    /\ \E i, j \in 1..4 :
          /\ i # j
          /\ resp.all_options[i].is_recommended
          /\ resp.all_options[j].is_alternative

(***************************************************************************)
(* Claims about /api/recommend and the unloaded predictor                  *)
(***************************************************************************)
RecommendAnswered == op = "/api/recommend" /\ resp.status = HTTP_OK

\* C16: every successful response of /api/recommend has
\* expected_final_risk <= current_risk and expected_risk_reduction >= 0.
C16_RecommendEndpointRiskNeverIncreases ==
    RecommendAnswered =>
        /\ resp.expected_final_risk <= resp.current_risk
        /\ resp.expected_risk_reduction >= 0

ApiCall == op \in {"predict", "/api/recommend", "simulate"}

\* C17: while the risk predictor is not loaded, predict, recommend and
\* simulate each answer 503, the oracle is not invoked and no response
\* carries a risk value.
C17_UnloadedPredictorUnavailable ==
    (ApiCall /\ ~riskPredictorLoaded) =>
        /\ resp.status = HTTP_UNAVAILABLE
        /\ resp.oracle_calls = 0
        /\ DOMAIN resp = {"status", "oracle_calls"}

\* /api/recommend refused after a startup that loaded the agent and the
\* scaler but found no risk predictor file
C17_Witness ==
    /\ op = "/api/recommend"
    /\ started /\ ~riskPredictorLoaded /\ agentLoaded /\ scalerLoaded
    /\ resp.status = HTTP_UNAVAILABLE

(***************************************************************************)
(* Claims about RiskPredictor                                              *)
(***************************************************************************)
PredictCalled == op = "predictor.predict"

\* the object cannot answer for these columns: not fitted, no names
\* stored, or the frame's columns are not the stored names in their order
CannotPredict(self, columns) ==
    \/ ~self.fitted
    \/ self.feature_names.none
    \/ columns # self.feature_names.names

\* C18: predict raises and returns no prediction whenever the model is not
\* trained or loaded and whenever the input's feature names or their order
\* differ from the stored names; a failed call leaves the predictor as it
\* was.
C18_PredictRejectsMismatch ==
    PredictCalled =>
        /\ CannotPredict(req.self, req.columns) =>
             /\ resp.raised
             /\ "risk_score" \notin DOMAIN resp
        /\ resp.raised => predictor = req.self

\* a fitted predictor asked about the training columns in another order
C18_Witness ==
    /\ PredictCalled
    /\ req.self.fitted
    /\ req.self.feature_names = Names(FeatureOrder)
    /\ req.columns = Reordered
    /\ resp.raised

(***************************************************************************)
(* Claims about the recommender's persistence                              *)
(***************************************************************************)
\* a path that does not exist, or a file in a serialization other than
\* JSON
MissingOrOtherFormat(file) == file.kind \in {"missing", "binary", "text"}

\* C19: load does not raise when the path does not exist or the file holds
\* another serialized format (such as a pickled RL agent); the default
\* configuration stays in force, and after any sequence of save and load
\* calls a recommendation equals the one made before them.
C19_LoadToleratesOtherFormats ==
    /\ (op = "recommender.load" /\ MissingOrOtherFormat(req.file)) => ~resp.raised
    /\ guideline.risk_thresholds = DefaultThresholds
    /\ op = "base after loads" => resp.action = GetBaseRecommendation(req.risk_score)

\* load has just met a binary pickle at the path and returned
C19_Witness ==
    /\ op = "recommender.load"
    /\ req.file.kind = "binary"
    /\ ~resp.raised
    /\ guideline.risk_thresholds = DefaultThresholds

(***************************************************************************)
(* Claims about the order of the edge cases                                *)
(***************************************************************************)
\* C20: inside the escalation logic the tier never decreases from one
\* edge case to the next (1-2, then 3, then 4, then 5): no edge case
\* assigns a tier lower than the tier in force when it is evaluated.
C20_TierNonDecreasingAcrossRules ==
    [][(op = "escalation" /\ op' = "escalation")
          => resp'.final_action >= resp.final_action]_vars


(***************************************************************************)
(* Claims about the borderline rule                                        *)
(***************************************************************************)
Borderline(risk_score) ==
    BORDERLINE_FROM <= risk_score /\ risk_score < BORDERLINE_BELOW

SignificantFactors(rf) == rf.severe >= 1 \/ rf.moderate >= 3

\* C21: for every risk score in [25, 35) and every tally with severe >= 1
\* or moderate >= 3 the action returned is at least 2; the borderline rule
\* (edge case 5) fires only when the tier in force is 1, and then raises it
\* to exactly 2.
C21_BorderlineRaisesTierOne ==
    [][(op = "escalation" /\ resp.next_case = "5" /\ op' = "escalation") =>
          /\ (Borderline(req.risk_score) /\ SignificantFactors(req.risk_factors))
                => resp'.final_action >= 2
          /\ resp'.escalation_reasons # resp.escalation_reasons
                => (resp.final_action = 1 /\ resp'.final_action = 2)]_vars


(***************************************************************************)
(* Claims about the risk-factor tally                                      *)
(***************************************************************************)
One(b) == IF b THEN 1 ELSE 0

Occurrences(details, texts) ==
    Cardinality({i \in DOMAIN details : details[i] \in texts})

\* the contribution of one thresholded feature: severe at or above the
\* severe threshold, otherwise moderate at or above the moderate threshold
ContributesOnce(value, severe, moderate, details, severeText, moderateText) ==
    /\ Occurrences(details, {severeText}) = One(value >= severe)
    /\ Occurrences(details, {moderateText}) = One(value >= moderate /\ value < severe)

\* C22: in every tally each of trestbps, chol, oldpeak and ca contributes
\* to at most one of the two counts (severe at or above the severe
\* threshold, otherwise moderate at or above the moderate threshold),
\* exang = 1 contributes exactly one moderate factor, severe_count <= 4,
\* moderate_count <= 5, severe_count + moderate_count <= 5, and the details
\* list has severe_count + moderate_count entries.
C22_TallyCounts ==
    Recommended =>
        LET d == req.patient
            rf == resp.risk_factors
        IN  /\ ContributesOnce(d.trestbps, SEVERE_TRESTBPS, MODERATE_TRESTBPS,
                   rf.details, "severe hypertension", "moderate hypertension")
            /\ ContributesOnce(d.chol, SEVERE_CHOL, MODERATE_CHOL,
                   rf.details, "very high cholesterol", "high cholesterol")
            /\ ContributesOnce(d.oldpeak, SEVERE_OLDPEAK, MODERATE_OLDPEAK,
                   rf.details, "significant ST depression", "moderate ST depression")
            /\ ContributesOnce(d.ca, CA_SEVERE, CA_MODERATE,
                   rf.details, "multiple vessel disease", "vessel disease")
            /\ Occurrences(rf.details, {"exercise-induced angina"}) = One(d.exang = 1)
            /\ rf.severe_count =
                   One(d.trestbps >= SEVERE_TRESTBPS) + One(d.chol >= SEVERE_CHOL)
                   + One(d.oldpeak >= SEVERE_OLDPEAK) + One(d.ca >= CA_SEVERE)
            /\ rf.moderate_count = Len(rf.details) - rf.severe_count
            /\ rf.severe_count <= 4
            /\ rf.moderate_count <= 5
            /\ rf.severe_count + rf.moderate_count <= 5
            /\ Len(rf.details) = rf.severe_count + rf.moderate_count

\* four severe factors and angina: the largest tally there is
C22_Witness ==
    /\ Recommended
    /\ resp.risk_factors.severe_count = 4
    /\ resp.risk_factors.moderate_count = 1
    /\ Len(resp.risk_factors.details) = 5


(***************************************************************************)
(* Claims about the rationale                                              *)
(***************************************************************************)
HasPart(rationale, part) == \E i \in DOMAIN rationale : rationale[i].part = part

StructuralFindings(d) == d.thal \in {6, 7} \/ d.ca >= 2

\* C23 as stated: the rationale returned by recommend contains the
\* structural-disease note whenever the patient has thal in {6, 7} or
\* ca >= 2, for every recommended action, and does not contain it when
\* neither condition holds.
C23_StructuralNoteForEveryAction ==
    Recommended =>
        (HasPart(resp.rationale, "structural note") <=> StructuralFindings(req.patient))

\* C23 amended: the rationale returned by recommend contains the
\* structural-disease note exactly when the patient has thal in {6, 7} or
\* ca >= 2 and the recommended action is 2 or above; with action 0 or 1
\* the note is absent whatever the findings.
C23_StructuralNoteFromSingleMedication ==
    Recommended =>
        (HasPart(resp.rationale, "structural note")
            <=> (StructuralFindings(req.patient) /\ resp.action >= 2))

\* two diseased vessels, a normal thal and a medication tier: the note is
\* there
C23_Witness ==
    /\ Recommended
    /\ req.patient.ca = 2
    /\ req.patient.thal = 3
    /\ resp.action >= 2
    /\ HasPart(resp.rationale, "structural note")


(***************************************************************************)
(* Claims about a missing scaler                                           *)
(***************************************************************************)
\* C24: when the models an endpoint needs are loaded but the data scaler
\* is not, predict, recommend and simulate answer with the status 503 that
\* normalize_patient_data raises; the status is not rewritten.
C24_MissingScalerUnavailable ==
    /\ (op = "predict" /\ ~PredictUnavailable /\ ~scalerLoaded)
          => resp.status = HTTP_UNAVAILABLE
    /\ (op = "/api/recommend" /\ ~RecommendUnavailable /\ ~scalerLoaded)
          => resp.status = HTTP_UNAVAILABLE
    /\ (op = "simulate" /\ ~SimulateUnavailable /\ ~scalerLoaded)
          => resp.status = HTTP_UNAVAILABLE


(***************************************************************************)
(* Claims about the rate limiter                                           *)
(***************************************************************************)
Limited == op = "dispatch" /\ resp.limited

\* the requests of ip that were allowed at a time in [from, until)
AllowedBetween(log, ip, from, until) ==
    {i \in DOMAIN log : /\ log[i].ip = ip
                        /\ log[i].allowed
                        /\ from <= log[i].ts
                        /\ log[i].ts < until}

\* the requests decided before the one just answered
Earlier == SubSeq(handled, 1, Len(handled) - 1)

\* the allowed requests of ip that lie less than 60 seconds before time
OwnRecent(log, ip, time) ==
    {i \in DOMAIN log : /\ log[i].ip = ip
                        /\ log[i].allowed
                        /\ log[i].ts > time - WINDOW_SECONDS}

\* C25: for every client IP and every interleaving of requests of several
\* IPs, the requests allowed for one IP within any 60-second window
\* [t, t + 60) never number more than the limit, and whether a request is
\* allowed is settled by the allowed requests of its own IP alone.
C25_WindowNeverExceedsLimit ==
    /\ \A i \in DOMAIN handled :
           Cardinality(AllowedBetween(handled, handled[i].ip, handled[i].ts,
                                      handled[i].ts + WINDOW_SECONDS))
               <= rate_limit_requests
    /\ Limited =>
           (~resp.rejected <=>
               Cardinality(OwnRecent(Earlier, resp.client_ip, resp.time))
                   < rate_limit_requests)

\* one client is at its limit and rejected, and the other client is let
\* through in the same window
C25_Witness ==
    /\ Limited
    /\ ~resp.rejected
    /\ \E i \in DOMAIN Earlier :
           /\ Earlier[i].ip # resp.client_ip
           /\ ~Earlier[i].allowed
           /\ Earlier[i].ts > resp.time - WINDOW_SECONDS
    /\ Cardinality(OwnRecent(handled, resp.client_ip, resp.time)) = rate_limit_requests


\* the keys request_counts can hold
ClientKeys == {GetClientIp(request) : request \in Requests}

\* the allowed requests of ip still inside the window at the clock, oldest
\* first
OwnAllowed(ip) ==
    LET Counts(entry) == /\ entry.ip = ip
                         /\ entry.allowed
                         /\ entry.ts > clock - WINDOW_SECONDS
    IN  SelectSeq(handled, Counts)

\* what request_counts holds for ip inside the window at the clock
Stored(ip) ==
    RecentRequests(EntriesOf(limiter.request_counts, ip), clock - WINDOW_SECONDS)

RejectedBefore(ip) ==
    \E i \in DOMAIN Earlier : Earlier[i].ip = ip /\ ~Earlier[i].allowed

\* C26: a rejected request is not recorded: what the limiter holds for a
\* client inside the window is exactly its allowed requests, one entry
\* each, whatever was rejected and whatever the cleanup removed; and a
\* client that was rejected before is allowed as soon as fewer than the
\* limit of its allowed requests lie within the last 60 seconds.
C26_RejectionsNotRecorded ==
    /\ \A ip \in ClientKeys :
           /\ Len(Stored(ip)) = Len(OwnAllowed(ip))
           /\ \A k \in DOMAIN Stored(ip) : Stored(ip)[k] = <<OwnAllowed(ip)[k].ts, 1>>
    /\ (/\ Limited
        /\ RejectedBefore(resp.client_ip)
        /\ Cardinality(OwnRecent(Earlier, resp.client_ip, resp.time))
               < rate_limit_requests)
           => ~resp.rejected

\* a client that was rejected comes back after the cleanup has dropped its
\* entries and is allowed
C26_Witness ==
    /\ Limited
    /\ ~resp.rejected
    /\ RejectedBefore(resp.client_ip)
    /\ limiter.last_cleanup = resp.time
    /\ limiter.last_cleanup > 0
    /\ limiter.request_counts[resp.client_ip] = <<<<resp.time, 1>>>>


\* C27: the rationale returned by recommend contains the 'Escalation
\* applied:' text exactly when the final action differs from the base
\* tier, and the canned explanation of the tier exactly when the two are
\* equal; never both and never neither.
C27_EscalationTextOrCannedText ==
    Recommended =>
        /\ HasPart(resp.rationale, "escalation applied")
              <=> resp.action # resp.base_action
        /\ HasPart(resp.rationale, "guideline")
              <=> resp.action = resp.base_action
        /\ HasPart(resp.rationale, "escalation applied")
              # HasPart(resp.rationale, "guideline")

\* a recommendation escalated above its base tier: the escalation text
\* stands in place of the canned one
C27_Witness ==
    /\ Recommended
    /\ resp.action > resp.base_action
    /\ HasPart(resp.rationale, "escalation applied")
    /\ ~HasPart(resp.rationale, "guideline")


(***************************************************************************)
(* Claims about the recommended action as a function of the risk           *)
(***************************************************************************)
FinalAction(risk_score, rf) ==
    ApplyEscalationLogic(GetBaseRecommendation(risk_score), risk_score, rf).final_action

\* C28: for a fixed risk-factor tally the recommended action is
\* monotonically non-decreasing in the risk score: a lower risk score
\* never gets a higher action than the one just returned.
C28_ActionMonotoneInRisk ==
    EscalationReturns =>
        \A lower \in 0..req.risk_score :
            FinalAction(lower, req.risk_factors) <= resp.final_action


Mentions(reasons, text) == \E i \in DOMAIN reasons : reasons[i] = text

\* C29: escalation rules c and d never fire: when rule c is evaluated with
\* risk >= 50 the tier is already at least 3, when rule d is evaluated
\* with risk >= 70 the tier is already 4, and the reasons of the two rules
\* never appear among the escalation reasons.
C29_HighRiskRulesNeverFire ==
    op = "escalation" =>
        /\ (resp.next_case = "3" /\ req.risk_score >= NEVER_MONITOR_RISK)
              => resp.final_action >= 3
        /\ (resp.next_case = "4" /\ req.risk_score >= INTENSIVE_RISK)
              => resp.final_action = 4
        /\ ~Mentions(resp.escalation_reasons, "High risk")
        /\ ~Mentions(resp.escalation_reasons, "Very high risk")

\* rules c and d have both been evaluated at a risk of 70 or more and have
\* left the tier and the reasons as they were
C29_Witness ==
    /\ op = "escalation"
    /\ resp.next_case = "5"
    /\ req.risk_score >= INTENSIVE_RISK
    /\ resp.final_action = 4
    /\ resp.escalation_reasons = <<>>


(***************************************************************************)
(* Claims about the flags of all_options                                   *)
(***************************************************************************)
RecommendedEntries == {i \in DOMAIN resp.all_options : resp.all_options[i].is_recommended}

DistinctActiveChoice ==
    /\ resp.recommended_action \in 1..4
    /\ resp.alternative_action \in 1..4
    /\ resp.recommended_action # resp.alternative_action

NoEntryWithBothFlags ==
    \A i \in DOMAIN resp.all_options :
        ~(resp.all_options[i].is_recommended /\ resp.all_options[i].is_alternative)

\* C30 as stated: for every baseline risk and every supplied outcomes map
\* recommend_intervention returns primary and alternative as two distinct
\* interventions in 1..4, exactly one entry of all_options has
\* is_recommended, its action_id is recommended_action, and no entry
\* carries both flags.
C30_ExactlyOneRecommendedEntry ==
    EngineAnswered =>
        /\ DistinctActiveChoice
        /\ Cardinality(RecommendedEntries) = 1
        /\ \A i \in RecommendedEntries :
               resp.all_options[i].action_id = resp.recommended_action
        /\ NoEntryWithBothFlags

\* C30 amended: primary and alternative are two distinct interventions in
\* 1..4 and no entry carries both flags; the entries with is_recommended
\* are exactly those of the recommended action, so there is one when the
\* supplied map has an outcome for the recommended action and none when it
\* has not.
C30_RecommendedEntryWhenSupplied ==
    EngineAnswered =>
        /\ DistinctActiveChoice
        /\ \A i \in RecommendedEntries :
               resp.all_options[i].action_id = resp.recommended_action
        /\ Cardinality(RecommendedEntries) =
               One(resp.recommended_action \in DOMAIN req.intervention_results)
        /\ NoEntryWithBothFlags

\* the map has outcomes for the recommended action and for the
\* alternative: one entry is flagged for each
C30_Witness ==
    /\ EngineAnswered
    /\ {resp.recommended_action, resp.alternative_action}
           \subseteq DOMAIN req.intervention_results
    /\ Cardinality(RecommendedEntries) = 1
    /\ \E i \in DOMAIN resp.all_options :
           /\ resp.all_options[i].is_alternative
           /\ resp.all_options[i].action_id = resp.alternative_action

=============================================================================
